---- MODULE Spec2Model ----
(***************************************************************************)
(* A model of flogg's FileLogger (logger.go): startup file selection,      *)
(* the rotation check done by every log call, the retention sweep and its  *)
(* background goroutine, and Close.  File names are sequences of           *)
(* one-character strings so that Sprintf, HasPrefix, HasSuffix, Split and  *)
(* Atoi are modelled by what they do to the characters.                    *)
(***************************************************************************)
EXTENDS Integers, Sequences, FiniteSets, TLC

(***************************************************************************)
(* Bounds of the model.                                                    *)
(***************************************************************************)
MaxDay == 2
MaxCalls == 2
MaxCloses == 2

\* the largest number of fields in a call of a Log*With method
MaxFields == 2

(***************************************************************************)
(* Program constants.                                                      *)
(***************************************************************************)
SizeLimit == 10000000

LogLevelDebug == 0
LogLevelInfo == 1
LogLevelWarn == 2
LogLevelError == 3
LogLevelFatal == 4

(***************************************************************************)
(* Strings: strconv, strings and fmt, character by character.              *)
(***************************************************************************)
Digits == <<"0", "1", "2", "3", "4", "5", "6", "7", "8", "9">>

IsDigit(c) == \E i \in 1..10 : Digits[i] = c

DigitVal(c) == (CHOOSE i \in 1..10 : Digits[i] = c) - 1

\* byte value of the characters file names are made of
Ord(c) ==
  CASE c = "-" -> 45
    [] c = "." -> 46
    [] IsDigit(c) -> 48 + DigitVal(c)
    [] c = "_" -> 95
    [] c = "a" -> 97
    [] c = "c" -> 99
    [] c = "d" -> 100
    [] c = "e" -> 101
    [] c = "g" -> 103
    [] c = "h" -> 104
    [] c = "i" -> 105
    [] c = "k" -> 107
    [] c = "l" -> 108
    [] c = "m" -> 109
    [] c = "o" -> 111
    [] c = "r" -> 114
    [] c = "s" -> 115
    [] c = "t" -> 116
    [] c = "v" -> 118
    [] c = "x" -> 120
    [] OTHER -> 127

\* fmt.Sprintf("%d", n) for n >= 0
RECURSIVE Itoa(_)
Itoa(n) == IF n < 10 THEN <<Digits[n + 1]>> ELSE Itoa(n \div 10) \o <<Digits[(n % 10) + 1]>>

RECURSIVE DigitsValue(_)
DigitsValue(s) ==
  IF s = <<>> THEN 0 ELSE 10 * DigitsValue(SubSeq(s, 1, Len(s) - 1)) + DigitVal(s[Len(s)])

\* strconv.Atoi: an optional sign, then one or more decimal digits
Atoi(s) ==
  LET signed == s # <<>> /\ s[1] \in {"+", "-"}
      body == IF signed THEN Tail(s) ELSE s
  IN IF body = <<>> \/ \E i \in 1..Len(body) : ~IsDigit(body[i])
     THEN [ok |-> FALSE, num |-> 0]
     ELSE [ok |-> TRUE,
           num |-> IF signed /\ s[1] = "-" THEN 0 - DigitsValue(body) ELSE DigitsValue(body)]

HasPrefix(s, p) == Len(s) >= Len(p) /\ SubSeq(s, 1, Len(p)) = p

HasSuffix(s, p) == Len(s) >= Len(p) /\ SubSeq(s, Len(s) - Len(p) + 1, Len(s)) = p

\* strings.Split(s, sep) for a one-character separator
RECURSIVE Split(_, _)
Split(s, sep) ==
  IF \A i \in 1..Len(s) : s[i] # sep
  THEN <<s>>
  ELSE LET k == CHOOSE i \in 1..Len(s) : s[i] = sep /\ \A j \in 1..(i - 1) : s[j] # sep
       IN <<SubSeq(s, 1, k - 1)>> \o Split(SubSeq(s, k + 1, Len(s)), sep)

\* byte-wise order of two names, the order os.ReadDir lists entries in
RECURSIVE NameLess(_, _)
NameLess(a, b) ==
  IF a = <<>> THEN b # <<>>
  ELSE IF b = <<>> THEN FALSE
  ELSE IF a[1] = b[1] THEN NameLess(Tail(a), Tail(b))
  ELSE Ord(a[1]) < Ord(b[1])

RECURSIVE SortNames(_)
SortNames(S) ==
  IF S = {} THEN <<>>
  ELSE LET m == CHOOSE x \in S : \A y \in S \ {x} : NameLess(x, y)
       IN <<m>> \o SortNames(S \ {m})

DotLog == <<".", "l", "o", "g">>

\* the year and month of the modelled calendar, as Sprintf("%d-%d-", y, m) prints them
YearMonth == <<"2", "0", "2", "5", "-", "1", "-">>

\* fmt.Sprintf(`%d-%d-%d`, y, m, d): no zero padding
DateStr(day) == YearMonth \o Itoa(day)

\* fmt.Sprintf(`%s_%d.log`, date, num)
LogName(date, num) == date \o <<"_">> \o Itoa(num) \o DotLog


(***************************************************************************)
(* The state.                                                              *)
(*   inodes  every file or directory that was ever an entry of LogDir: its *)
(*           name, kind, the bytes it held before this run (base), the     *)
(*           lines appended since, its modification day, and whether the   *)
(*           name is still linked in the directory                         *)
(*   fobj    the *os.File values opened so far: the inode and whether      *)
(*           Close has been called on it                                   *)
(***************************************************************************)
VARIABLES
  now,             \* the wall clock, as a day of the month
  inodes,
  fobj,
  args,            \* the arguments the application calls NewLogger with
  fmtArgs,         \* the logger's Format and the arguments of a call of formatMessage
  formatted,       \* the string formatMessage returned
  logger,          \* "none" before NewLogger, then "constructed" or "failed"
  DevMode,
  MaxLogAgeDays,
  MinLevel,
  CurrentLogFile,  \* index into fobj, 0 for nil
  FileLog,         \* index into fobj of the file the log.Logger writes to
  oldFile,         \* refreshLogFile's oldFile between the switch and its Close, else 0
  stopCleanup,     \* the channel: "nil", "open" or "closed"
  mu,              \* the caller that holds the mutex, or NoOne
  pc,              \* where each caller is
  cur,             \* the call each caller is making: id, level, line length
  spc,             \* periodicCleanup: "none", "select", "sweep" or "done"
  tickC,           \* a tick is waiting in ticker.C
  sweepList,       \* the entries the running sweep has still to look at
  sweepCutoff,     \* cutoffTime of the running sweep
  lastSweep,       \* what the latest cleanupOldLogs returned: "none", "ok" or "error"
  proc,            \* "running", "exited" (log.Fatal) or "panicked"
  echo,            \* ids of the calls echoed through the standard logger
  nextId,          \* history: number of log calls made so far
  okIds,           \* history: calls whose refreshLogFile is past its last error return
  removed,         \* history: entries removed by sweeps
  closeCalls       \* history: number of Close calls made so far

config == <<DevMode, MaxLogAgeDays, MinLevel>>
handles == <<CurrentLogFile, FileLog, oldFile>>
sweeper == <<spc, tickC, sweepList, sweepCutoff, lastSweep>>

formatting == <<fmtArgs, formatted>>

vars == <<now, inodes, fobj, args, formatting, logger, config, handles, stopCleanup, mu, pc, cur, sweeper,
          proc, echo, nextId, okIds, removed, closeCalls>>

\* the goroutines that use the logger
Callers == DOMAIN pc
NoOne == "none"
NoCall == [id |-> 0, level |-> 0, len |-> 0]

Levels == LogLevelDebug..LogLevelFatal
\* the arguments NewLogger is called with: minLevel filters nothing, some levels or all;
\* the sweep is on (1 day) or off (0 or less)
Configs ==
  { [devMode |-> FALSE, maxLogAgeDays |-> 0, minLevel |-> LogLevelDebug],
    [devMode |-> TRUE, maxLogAgeDays |-> 1, minLevel |-> LogLevelDebug],
    [devMode |-> TRUE, maxLogAgeDays |-> 0, minLevel |-> LogLevelWarn],
    [devMode |-> FALSE, maxLogAgeDays |-> 1, minLevel |-> LogLevelWarn],
    [devMode |-> FALSE, maxLogAgeDays |-> -1, minLevel |-> LogLevelFatal + 1] }
\* bytes of a line: the date and time, the message, the newline
LineLens == {30}

(***************************************************************************)
(* The directory.                                                          *)
(***************************************************************************)
Linked(ino) == {i \in 1..Len(ino) : ino[i].linked}

DirNames(ino) == {ino[i].name : i \in Linked(ino)}

Lookup(ino, name) == CHOOSE i \in Linked(ino) : ino[i].name = name

\* os.ReadDir: the names of the entries, sorted by name
ReadDir(ino) == SortNames(DirNames(ino))

RECURSIVE SumLen(_)
SumLen(lines) == IF lines = <<>> THEN 0 ELSE lines[1].len + SumLen(Tail(lines))

\* FileInfo.Size()
Size(f) == f.base + SumLen(f.lines)

NewFile(name, day) ==
  [name |-> name, kind |-> "file", base |-> 0, lines |-> <<>>, mtime |-> day, linked |-> TRUE]

\* os.OpenFile(path, O_CREATE|O_WRONLY|O_APPEND, 0666) can succeed: the name is free or
\* names a regular file (opening a directory for writing fails with EISDIR)
CanOpen(ino, name) == name \in DirNames(ino) => ino[Lookup(ino, name)].kind = "file"

\* the directory after a successful OpenFile: an existing file is left as it is
OpenFileTruncates(ino, name, day) ==
  IF name \in DirNames(ino)
  THEN [ino EXCEPT ![Lookup(ino, name)].base = 0, ![Lookup(ino, name)].lines = <<>>]
  ELSE Append(ino, NewFile(name, day))

OpenFile(ino, name, day) ==
  IF name \in DirNames(ino) THEN ino ELSE Append(ino, NewFile(name, day))

\* the inode the opened name refers to, in the directory after OpenFile
Opened(ino, name) == Lookup(ino, name)

\* os.Remove succeeds on a file and on an empty directory; on a directory that is not
\* empty (kind "fulldir") it returns an error
CanRemove(ino, name) == ino[Lookup(ino, name)].kind # "fulldir"

\* os.Remove: unlinks a file or an empty directory; an open descriptor keeps the inode
Remove(ino, name) == [ino EXCEPT ![Lookup(ino, name)].linked = FALSE]

\* (*log.Logger).Println on an *os.File opened with O_APPEND: one write call; a closed
\* file takes nothing
Println(ino, f, line, day) ==
  IF f.closed THEN ino
  ELSE [ino EXCEPT ![f.ino].lines = Append(@, line), ![f.ino].mtime = day]


(***************************************************************************)
(* getUserLogFile: the name of the file to open at startup.                *)
(***************************************************************************)
\* filename[:len(filename)-4]
StripExt(filename) == SubSeq(filename, 1, Len(filename) - 4)

RECURSIVE StripAll(_)
StripAll(files) == IF files = <<>> THEN <<>> ELSE <<StripExt(files[1])>> \o StripAll(Tail(files))

\* the entries that start with the date, without their last four characters
filteredFiles(files, date) == StripAll(SelectSeq(files, LAMBDA f : HasPrefix(f, date)))

\* the loop over filteredFiles, from index i on
RECURSIVE maxNumLoop(_, _, _, _)
maxNumLoop(ff, i, maxNum, logFileName) ==
  IF i > Len(ff) THEN logFileName
  ELSE LET parts == Split(ff[i], "_")
           a == Atoi(parts[2])
       IN IF Len(parts) # 2 THEN maxNumLoop(ff, i + 1, maxNum, logFileName)
          ELSE IF ~a.ok THEN maxNumLoop(ff, i + 1, maxNum, logFileName)
          ELSE IF a.num > maxNum THEN maxNumLoop(ff, i + 1, a.num, ff[i])
          ELSE maxNumLoop(ff, i + 1, maxNum, logFileName)

\* takes the last entry of today's date, whatever its number
TakesLastEntry(files, date) ==
  LET ff == filteredFiles(files, date)
  IN (IF Len(ff) > 0 THEN ff[Len(ff)] ELSE date \o <<"_", "1">>) \o DotLog

getUserLogFile(files, date) ==
  LET ff == filteredFiles(files, date)
  IN (IF Len(ff) > 0 THEN maxNumLoop(ff, 1, 0, ff[1]) ELSE date \o <<"_", "1">>) \o DotLog

(***************************************************************************)
(* refreshLogFile: the rotation check of one log call, up to the switch to *)
(* the new file.  The result says whether it returned an error or          *)
(* panicked, and gives the directory, the opened files and the logger's    *)
(* two fields as it leaves them.                                           *)
(***************************************************************************)
BelowCeiling(size) == size < SizeLimit

SameDate(filename, date) == HasPrefix(filename, date)

\* an error return that leaves the active file closed
FailureClosesTheFile(ino, fo, c, err, panic) ==
  [err |-> err, panic |-> panic, ino |-> ino,
   fobj |-> IF err THEN [fo EXCEPT ![c].closed = TRUE] ELSE fo, swapped |-> FALSE, logFile |-> c]

\* a return before line 257: the logger's fields are as they were
Unrotated(ino, fo, c, err, panic) ==
  [err |-> err, panic |-> panic, ino |-> ino, fobj |-> fo, swapped |-> FALSE, logFile |-> c]

\* as SwitchTo, but Close is called on the new file instead of the old one
SwitchToClosesNew(ino, fo, c, newFileName, day, openOk) ==
  IF ~openOk \/ ~CanOpen(ino, newFileName)
  THEN Unrotated(ino, fo, c, TRUE, FALSE)
  ELSE LET ino2 == OpenFile(ino, newFileName, day)
           logFile == [ino |-> Opened(ino2, newFileName), closed |-> TRUE]
       IN [err |-> FALSE, panic |-> FALSE, ino |-> ino2, fobj |-> Append(fo, logFile),
           swapped |-> TRUE, logFile |-> Len(fo) + 1]

\* as SwitchTo, but the old file is closed and the logger's fields are left as they were
ClosesWithoutSwitching(ino, fo, c, newFileName, day, openOk) ==
  IF ~openOk \/ ~CanOpen(ino, newFileName)
  THEN Unrotated(ino, fo, c, TRUE, FALSE)
  ELSE LET ino2 == OpenFile(ino, newFileName, day)
           logFile == [ino |-> Opened(ino2, newFileName), closed |-> FALSE]
       IN [err |-> FALSE, panic |-> FALSE, ino |-> ino2,
           fobj |-> Append([fo EXCEPT ![c].closed = TRUE], logFile),
           swapped |-> FALSE, logFile |-> c]

\* lines 251-259: open the new file and switch to it; the old file is still open
SwitchTo(ino, fo, c, newFileName, day, openOk) ==
  IF ~openOk \/ ~CanOpen(ino, newFileName)
  THEN Unrotated(ino, fo, c, TRUE, FALSE)
  ELSE LET ino2 == OpenFile(ino, newFileName, day)
           logFile == [ino |-> Opened(ino2, newFileName), closed |-> FALSE]
       IN [err |-> FALSE, panic |-> FALSE, ino |-> ino2, fobj |-> Append(fo, logFile),
           swapped |-> TRUE, logFile |-> Len(fo) + 1]

refreshLogFile(ino, fo, c, day, openOk) ==
  LET filename == ino[fo[c].ino].name
      date == DateStr(day)
      parts == Split(StripExt(filename), "_")
      a == Atoi(parts[2])
  IN IF ~SameDate(filename, date)
     THEN SwitchTo(ino, fo, c, LogName(date, 1), day, openOk)
     ELSE IF fo[c].closed THEN Unrotated(ino, fo, c, TRUE, FALSE)    \* Stat fails
     ELSE IF BelowCeiling(Size(ino[fo[c].ino])) THEN Unrotated(ino, fo, c, FALSE, FALSE)
     ELSE IF Len(parts) < 2 THEN Unrotated(ino, fo, c, TRUE, TRUE)   \* index out of range
     ELSE IF ~a.ok THEN Unrotated(ino, fo, c, TRUE, FALSE)
     ELSE SwitchTo(ino, fo, c, LogName(date, a.num + 1), day, openOk)

(***************************************************************************)
(* cleanupOldLogs: the retention sweep.                                    *)
(***************************************************************************)
\* a comparison that also takes an entry modified exactly at the cutoff
NotAfter(mtime, cutoff) == mtime <= cutoff

\* info.ModTime().Before(cutoffTime)
Before(mtime, cutoff) == mtime < cutoff

\* lines 314-323 for one listed entry: it has the suffix, Info succeeds (the entry is
\* still there) and it is older than the cutoff
IsOldLog(ino, name, cutoff) ==
  /\ HasSuffix(name, DotLog)
  /\ name \in DirNames(ino)
  /\ Before(ino[Lookup(ino, name)].mtime, cutoff)

\* one iteration of the loop: a failing os.Remove is reported and changes nothing
sweepEntry(ino, name, cutoff) ==
  IF IsOldLog(ino, name, cutoff) /\ CanRemove(ino, name) THEN Remove(ino, name) ELSE ino

\* a loop that ends at the first entry os.Remove fails on
StopsAtFailure(ino, files, cutoff) ==
  IF IsOldLog(ino, files[1], cutoff) /\ ~CanRemove(ino, files[1]) THEN <<>> ELSE Tail(files)

\* the entries the loop has still to look at after files[1], whatever os.Remove returned
Remaining(ino, files, cutoff) == Tail(files)

RECURSIVE sweepLoop(_, _, _)
sweepLoop(ino, files, cutoff) ==
  IF files = <<>> THEN ino
  ELSE sweepLoop(sweepEntry(ino, files[1], cutoff), Remaining(ino, files, cutoff), cutoff)

\* now.AddDate(0, 0, -l.MaxLogAgeDays)
Cutoff(day, maxAge) == day - maxAge

\* if l.MaxLogAgeDays <= 0 { return nil }
Disabled(maxAge) == maxAge <= 0

\* a whole sweep with nothing else running, as NewLogger makes it
cleanupOldLogs(ino, maxAge, day, readOk) ==
  IF Disabled(maxAge) \/ ~readOk THEN ino
  ELSE sweepLoop(ino, ReadDir(ino), Cutoff(day, maxAge))

\* what a step removed from the directory
Unlinked(ino, ino2) ==
  {[name |-> ino[i].name, kind |-> ino[i].kind] : i \in {j \in Linked(ino) : ~ino2[j].linked}}


(***************************************************************************)
(* The directories NewLogger may find, left by earlier runs or by the      *)
(* user.  arch.log is a directory, the other entries are files.            *)
(***************************************************************************)
DataTxt == <<"d", "a", "t", "a", ".", "t", "x", "t">>
ArchLog == <<"a", "r", "c", "h", ".", "l", "o", "g">>

Entry(name, kind, base, mtime) ==
  [name |-> name, kind |-> kind, base |-> base, lines |-> <<>>, mtime |-> mtime, linked |-> TRUE]

\* the last day of the month before
Dec31 == <<"2", "0", "2", "4", "-", "1", "2", "-", "3", "1">>

LogFile(date, num, base, mtime) == Entry(LogName(date, num), "file", base, mtime)

\* the clock starts on day 1: Dec31 files are of an earlier date, those of days 2 and 10
\* of a later one
InitDirs ==
  { {},
    {LogFile(DateStr(1), 1, SizeLimit - 1, 0)},
    {LogFile(DateStr(1), 2, SizeLimit, -1), LogFile(DateStr(1), 10, SizeLimit, 0)},
    {LogFile(Dec31, 1, SizeLimit, 0), Entry(DataTxt, "file", 0, -1)},
    {LogFile(DateStr(10), 1, SizeLimit, 0)},
    {LogFile(DateStr(10), 1, SizeLimit - 1, 0)},
    {LogFile(DateStr(2), 1, SizeLimit - 1, 0)},
    {LogFile(DateStr(2), 1, SizeLimit, 0)},
    {LogFile(Dec31, 1, 0, -1), Entry(ArchLog, "dir", 0, -1)},
    {LogFile(Dec31, 1, 0, -1), Entry(LogName(DateStr(1), 1), "dir", 0, 0)},
    {Entry(DateStr(1) \o <<"_", "x">> \o DotLog, "file", SizeLimit, 0)},
    {Entry(DateStr(1) \o DotLog, "file", SizeLimit, 0)} }

RECURSIVE InitInodes(_, _)
InitInodes(names, D) ==
  IF names = <<>> THEN <<>>
  ELSE <<CHOOSE e \in D : e.name = names[1]>> \o InitInodes(Tail(names), D)

\* directories and arguments of the runs with two goroutines
ConcDirs == { {LogFile(DateStr(1), 1, SizeLimit - 1, 0)} }

ConcConfigs ==
  { [devMode |-> TRUE, maxLogAgeDays |-> 1, minLevel |-> LogLevelDebug] }

InitRest(goroutines) ==
  /\ fobj = <<>>
  /\ logger = "none"
  /\ DevMode = FALSE
  /\ MaxLogAgeDays = 0
  /\ MinLevel = 0
  /\ CurrentLogFile = 0
  /\ FileLog = 0
  /\ oldFile = 0
  /\ stopCleanup = "nil"
  /\ mu = NoOne
  /\ pc = [c \in goroutines |-> "idle"]
  /\ cur = [c \in goroutines |-> NoCall]
  /\ spc = "none"
  /\ tickC = FALSE
  /\ sweepList = <<>>
  /\ sweepCutoff = 0
  /\ lastSweep = "none"
  /\ proc = "running"
  /\ echo = {}
  /\ nextId = 0
  /\ okIds = {}
  /\ removed = {}
  /\ closeCalls = 0

\* no call of formatMessage is looked at
NoFormat ==
  [Format |-> "none", level |-> <<>>, message |-> <<>>, fields |-> [nil |-> TRUE, m |-> <<>>]]

NotFormatted == "none"

InitWith(goroutines, dirs, configs) ==
  /\ now = 1
  /\ fmtArgs = NoFormat
  /\ formatted = NotFormatted
  /\ \E D \in dirs : inodes = InitInodes(SortNames({e.name : e \in D}), D)
  /\ args \in configs
  /\ InitRest(goroutines)

\* one goroutine, every directory and configuration
Init == InitWith({"g1"}, InitDirs, Configs)

\* directories with old log files and, between them in the listing, a directory arch.log
\* that is not empty: old before the sweep of NewLogger, or old on the next day
XLog == <<"x">> \o DotLog

SweepDirs ==
  { {LogFile(Dec31, 1, 0, -1), Entry(ArchLog, "fulldir", 0, -1), Entry(XLog, "file", 0, -1)},
    {LogFile(Dec31, 1, 0, 0), Entry(ArchLog, "fulldir", 0, 0), Entry(XLog, "file", 0, 0)} }

InitSweep == InitWith({"g1"}, SweepDirs, Configs)

\* two goroutines
InitConc == InitWith({"g1", "g2"}, ConcDirs, ConcConfigs)

\* two goroutines and an active file that is at the ceiling when the logger starts
RaceDirs == { {LogFile(DateStr(1), 1, SizeLimit, 0)} }

RaceConfigs ==
  { [devMode |-> FALSE, maxLogAgeDays |-> 1, minLevel |-> LogLevelFatal] }

InitRace == InitWith({"g1", "g2"}, RaceDirs, RaceConfigs)

(***************************************************************************)
(* The clock: one or more days pass in the life of the logger.  A running  *)
(* ticker puts a tick in its channel.                                      *)
(***************************************************************************)
Tick ==
  /\ proc = "running"
  /\ logger = "constructed"
  /\ now < MaxDay
  /\ now' \in (now + 1)..MaxDay
  /\ tickC' = IF spc \in {"select", "sweep"} THEN TRUE ELSE tickC
  /\ UNCHANGED <<inodes, fobj, args, formatting, logger, config, handles, stopCleanup, mu, pc, cur, spc,
                 sweepList, sweepCutoff, lastSweep, proc, echo, nextId, okIds, removed,
                 closeCalls>>

(***************************************************************************)
(* NewLogger.  fail names the step that fails, if any.                     *)
(***************************************************************************)
\* an error return that leaves the sweeper goroutine started
NewLoggerFailsWithSweeper ==
  /\ logger' = "failed"
  /\ spc' = "select"
  /\ UNCHANGED <<now, inodes, fobj, config, handles, stopCleanup, mu, pc, cur, tickC, sweepList,
                 sweepCutoff, lastSweep, proc, echo, nextId, okIds, removed, closeCalls>>

\* return nil, fmt.Errorf(...): no logger
NewLoggerFails ==
  /\ logger' = "failed"
  /\ UNCHANGED <<now, inodes, fobj, config, handles, stopCleanup, mu, pc, cur, sweeper,
                 proc, echo, nextId, okIds, removed, closeCalls>>

\* every failing step makes NewLogger return an error
AbortsOnSweepToo(fail) == fail # "none"

\* the steps whose failure makes NewLogger return an error: user.Current, os.MkdirAll,
\* and in getUserLogFile os.ReadDir and os.OpenFile
Aborts(fail) == fail \in {"user", "mkdir", "readdir", "open"}

NewLogger(devMode, maxLogAgeDays, minLevel, fail) ==
  /\ proc = "running"
  /\ logger = "none"
  /\ UNCHANGED <<args, formatting>>
  /\ LET files == ReadDir(inodes)
         logFileName == getUserLogFile(files, DateStr(now))
         ino2 == OpenFile(inodes, logFileName, now)
         ino3 == cleanupOldLogs(ino2, maxLogAgeDays, now, fail # "sweep")
     IN IF Aborts(fail) \/ ~CanOpen(inodes, logFileName) THEN NewLoggerFails
        ELSE /\ inodes' = ino3
             /\ fobj' = <<[ino |-> Opened(ino2, logFileName), closed |-> FALSE]>>
             /\ CurrentLogFile' = 1
             /\ FileLog' = 1
             /\ oldFile' = 0
             /\ DevMode' = devMode
             /\ MaxLogAgeDays' = maxLogAgeDays
             /\ MinLevel' = minLevel
             /\ stopCleanup' = "open"
             /\ spc' = IF maxLogAgeDays > 0 THEN "select" ELSE "none"
             /\ logger' = "constructed"
             /\ removed' = removed \cup Unlinked(ino2, ino3)
             /\ lastSweep' = IF Disabled(maxLogAgeDays) \/ fail # "sweep" THEN "ok" ELSE "error"
             /\ UNCHANGED <<now, mu, pc, cur, tickC, sweepList, sweepCutoff, proc, echo,
                            nextId, okIds, closeCalls>>

(***************************************************************************)
(* Log calls.  LogDebugWith .. LogFatalWith differ in their level only:    *)
(* the filter, the echo before the write (Info, Warn, Error) and what      *)
(* follows the write (Debug: the echo in DevMode; Fatal: log.Fatal).       *)
(***************************************************************************)
\* a caller calls the log method of the given level with a message of the given length
LogCall(c, level, len) ==
  /\ proc = "running"
  /\ logger = "constructed"
  /\ pc[c] = "idle"
  /\ nextId < MaxCalls
  /\ nextId' = nextId + 1
  /\ pc' = [pc EXCEPT ![c] = "entry"]
  /\ cur' = [cur EXCEPT ![c] = [id |-> nextId + 1, level |-> level, len |-> len]]
  /\ UNCHANGED <<now, inodes, fobj, args, formatting, logger, config, handles, stopCleanup, mu, sweeper,
                 proc, echo, okIds, removed, closeCalls>>

FiltersAtLevel(minLevel, level) == minLevel >= level

\* if l.MinLevel > LogLevelX { return }
Filtered(minLevel, level) == minLevel > level

\* an echo that is made for warnings and errors only
EchoesWarningsFirst(level) == level \in {LogLevelWarn, LogLevelError}

\* LogInfoWith, LogWarnWith, LogErrorWith: log.Println(formatted) before logToFile
EchoesFirst(level) == level \in {LogLevelInfo, LogLevelWarn, LogLevelError}

\* the filter, formatMessage and, for Info, Warn and Error, log.Println(message)
Enter(c) ==
  /\ proc = "running"
  /\ pc[c] = "entry"
  /\ IF Filtered(MinLevel, cur[c].level)
     THEN /\ pc' = [pc EXCEPT ![c] = "idle"]
          /\ cur' = [cur EXCEPT ![c] = NoCall]
          /\ UNCHANGED echo
     ELSE /\ pc' = [pc EXCEPT ![c] = "lock"]
          /\ echo' = IF EchoesFirst(cur[c].level) THEN echo \cup {cur[c].id} ELSE echo
          /\ UNCHANGED cur
  /\ UNCHANGED <<now, inodes, fobj, args, formatting, logger, config, handles, stopCleanup, mu, sweeper,
                 proc, nextId, okIds, removed, closeCalls>>

\* a mutex that never makes a goroutine wait
NeverWaits(c) == TRUE

\* sync.Mutex: Lock returns once no goroutine holds the mutex
MutexFree(c) == mu = NoOne

\* logToFile: l.mu.Lock()
Lock(c) ==
  /\ proc = "running"
  /\ pc[c] = "lock"
  /\ MutexFree(c)
  /\ mu' = c
  /\ pc' = [pc EXCEPT ![c] = "refresh"]
  /\ UNCHANGED <<now, inodes, fobj, args, formatting, logger, config, handles, stopCleanup, cur, sweeper,
                 proc, echo, nextId, okIds, removed, closeCalls>>

\* a logToFile that goes on to Println whatever refreshLogFile returned
WritesAnyway(err) == "write"

\* logToFile: if err != nil { log.Printf(...); return }, else l.FileLog.Println(message)
AfterRefresh(err) == IF err THEN "unlock" ELSE "write"

\* logToFile: err := l.refreshLogFile(); on an error the line is dropped.  After a switch
\* to a new file refreshLogFile has still to close the old one
\* as SetFileLog, but the line writer is never replaced
KeepsTheOldWriter(r, fl) == fl

\* l.FileLog = log.New(logFile, ...) when refreshLogFile got as far as the switch
SetFileLog(r, fl) == IF r.swapped THEN r.logFile ELSE fl

Refresh(c, openOk) ==
  /\ proc = "running"
  /\ pc[c] = "refresh"
  /\ LET r == refreshLogFile(inodes, fobj, CurrentLogFile, now, openOk)
     IN /\ inodes' = r.ino
        /\ fobj' = r.fobj
        /\ CurrentLogFile' = IF r.swapped THEN r.logFile ELSE CurrentLogFile
        /\ FileLog' = SetFileLog(r, FileLog)
        /\ oldFile' = IF r.swapped THEN CurrentLogFile ELSE oldFile
        /\ proc' = IF r.panic THEN "panicked" ELSE proc
        /\ pc' = [pc EXCEPT ![c] = IF r.swapped THEN "closeold" ELSE AfterRefresh(r.err)]
        /\ okIds' = IF r.err THEN okIds ELSE okIds \cup {cur[c].id}
  /\ UNCHANGED <<now, args, formatting, logger, config, stopCleanup, mu, cur, sweeper, echo, nextId, removed,
                 closeCalls>>

\* a rotation that leaves the old file open
LeavesOpen(fo, old) == fo

\* oldFile.Close(): an error (the file was closed before) is only reported
CloseOldFile(fo, old) == [fo EXCEPT ![old].closed = TRUE]

\* refreshLogFile after the switch: close the old file and return nil
CloseOld(c) ==
  /\ proc = "running"
  /\ pc[c] = "closeold"
  /\ fobj' = CloseOldFile(fobj, oldFile)
  /\ oldFile' = 0
  /\ pc' = [pc EXCEPT ![c] = "write"]
  /\ UNCHANGED <<now, inodes, args, formatting, logger, config, CurrentLogFile, FileLog, stopCleanup,
                 mu, cur, sweeper, proc, echo, nextId, okIds, removed, closeCalls>>

\* logToFile: l.FileLog.Println(message)
Write(c) ==
  /\ proc = "running"
  /\ pc[c] = "write"
  /\ inodes' = Println(inodes, fobj[FileLog],
                       [id |-> cur[c].id, len |-> cur[c].len, day |-> now], now)
  /\ pc' = [pc EXCEPT ![c] = "unlock"]
  /\ UNCHANGED <<now, fobj, args, formatting, logger, config, handles, stopCleanup, mu, cur, sweeper,
                 proc, echo, nextId, okIds, removed, closeCalls>>

\* logToFile: the deferred l.mu.Unlock(); Info, Warn and Error calls return after it
Unlock(c) ==
  /\ proc = "running"
  /\ pc[c] = "unlock"
  /\ mu' = NoOne
  /\ IF cur[c].level \in {LogLevelDebug, LogLevelFatal}
     THEN /\ pc' = [pc EXCEPT ![c] = "after"]
          /\ UNCHANGED cur
     ELSE /\ pc' = [pc EXCEPT ![c] = "idle"]
          /\ cur' = [cur EXCEPT ![c] = NoCall]
  /\ UNCHANGED <<now, inodes, fobj, args, formatting, logger, config, handles, stopCleanup, sweeper,
                 proc, echo, nextId, okIds, removed, closeCalls>>

\* a Fatal call that comes back to its caller
ReturnsAfterFatal(level) == FALSE

\* LogFatalWith ends in log.Fatal(message): the message is printed and os.Exit(1) is called
Exits(level) == level = LogLevelFatal

\* after logToFile: LogDebugWith echoes in DevMode, LogFatalWith calls log.Fatal
AfterWrite(c) ==
  /\ proc = "running"
  /\ pc[c] = "after"
  /\ echo' = IF cur[c].level = LogLevelFatal \/ DevMode THEN echo \cup {cur[c].id} ELSE echo
  /\ proc' = IF Exits(cur[c].level) THEN "exited" ELSE proc
  /\ pc' = [pc EXCEPT ![c] = "idle"]
  /\ cur' = [cur EXCEPT ![c] = NoCall]
  /\ UNCHANGED <<now, inodes, fobj, args, formatting, logger, config, handles, stopCleanup, mu, sweeper,
                 nextId, okIds, removed, closeCalls>>

(***************************************************************************)
(* Close.                                                                  *)
(***************************************************************************)
\* if l.stopCleanup != nil { close(l.stopCleanup) }: closing a closed channel panics
CloseStop(c) ==
  /\ proc = "running"
  /\ logger = "constructed"
  /\ pc[c] = "idle"
  /\ closeCalls < MaxCloses
  /\ closeCalls' = closeCalls + 1
  /\ IF stopCleanup = "closed"
     THEN /\ proc' = "panicked"
          /\ pc' = [pc EXCEPT ![c] = "closestop"]
          /\ UNCHANGED stopCleanup
     ELSE /\ stopCleanup' = IF stopCleanup = "nil" THEN "nil" ELSE "closed"
          /\ pc' = [pc EXCEPT ![c] = "closelock"]
          /\ UNCHANGED proc
  /\ UNCHANGED <<now, inodes, fobj, args, formatting, logger, config, handles, mu, cur, sweeper,
                 echo, nextId, okIds, removed>>

\* a Close that goes on to the file without the mutex
CloseWithoutLock(c) ==
  /\ proc = "running"
  /\ pc[c] = "closelock"
  /\ pc' = [pc EXCEPT ![c] = "closefile"]
  /\ UNCHANGED <<now, inodes, fobj, args, formatting, logger, config, handles, stopCleanup, mu, cur,
                 sweeper, proc, echo, nextId, okIds, removed, closeCalls>>

\* l.mu.Lock()
CloseLock(c) ==
  /\ proc = "running"
  /\ pc[c] = "closelock"
  /\ MutexFree(c)
  /\ mu' = c
  /\ pc' = [pc EXCEPT ![c] = "closefile"]
  /\ UNCHANGED <<now, inodes, fobj, args, formatting, logger, config, handles, stopCleanup, cur, sweeper,
                 proc, echo, nextId, okIds, removed, closeCalls>>

\* if l.CurrentLogFile != nil { return l.CurrentLogFile.Close() }, then the deferred Unlock
CloseFile(c) ==
  /\ proc = "running"
  /\ pc[c] = "closefile"
  /\ fobj' = IF CurrentLogFile # 0 THEN [fobj EXCEPT ![CurrentLogFile].closed = TRUE] ELSE fobj
  /\ mu' = NoOne
  /\ pc' = [pc EXCEPT ![c] = "idle"]
  /\ UNCHANGED <<now, inodes, args, formatting, logger, config, handles, stopCleanup, cur, sweeper,
                 proc, echo, nextId, okIds, removed, closeCalls>>

(***************************************************************************)
(* periodicCleanup: the goroutine's select, and the sweep it runs entry by *)
(* entry while log calls go on.                                            *)
(***************************************************************************)
\* case <-ticker.C: cleanupOldLogs starts: the early return, ReadDir, the cutoff
SweepStart(readOk) ==
  /\ proc = "running"
  /\ spc = "select"
  /\ tickC
  /\ tickC' = FALSE
  /\ IF Disabled(MaxLogAgeDays) \/ ~readOk
     THEN /\ lastSweep' = IF Disabled(MaxLogAgeDays) THEN "ok" ELSE "error"
          /\ UNCHANGED <<spc, sweepList, sweepCutoff>>
     ELSE /\ spc' = "sweep"
          /\ sweepList' = ReadDir(inodes)
          /\ sweepCutoff' = Cutoff(now, MaxLogAgeDays)
          /\ UNCHANGED lastSweep
  /\ UNCHANGED <<now, inodes, fobj, args, formatting, logger, config, handles, stopCleanup, mu, pc, cur,
                 proc, echo, nextId, okIds, removed, closeCalls>>

\* one iteration of the loop of cleanupOldLogs
SweepEntry ==
  /\ proc = "running"
  /\ spc = "sweep"
  /\ sweepList # <<>>
  /\ inodes' = sweepEntry(inodes, sweepList[1], sweepCutoff)
  /\ removed' = removed \cup Unlinked(inodes, inodes')
  /\ sweepList' = Remaining(inodes, sweepList, sweepCutoff)
  /\ UNCHANGED <<now, fobj, args, formatting, logger, config, handles, stopCleanup, mu, pc, cur, spc, tickC,
                 sweepCutoff, lastSweep, proc, echo, nextId, okIds, closeCalls>>

\* cleanupOldLogs returns; the goroutine is back at its select
SweepEnd ==
  /\ proc = "running"
  /\ spc = "sweep"
  /\ sweepList = <<>>
  /\ spc' = "select"
  /\ lastSweep' = "ok"
  /\ UNCHANGED <<now, inodes, fobj, args, formatting, logger, config, handles, stopCleanup, mu, pc, cur,
                 tickC, sweepList, sweepCutoff, proc, echo, nextId, okIds, removed,
                 closeCalls>>

\* case <-l.stopCleanup: return (the deferred ticker.Stop())
SweeperStop ==
  /\ proc = "running"
  /\ spc = "select"
  /\ stopCleanup = "closed"
  /\ spc' = "done"
  /\ tickC' = FALSE
  /\ UNCHANGED <<now, inodes, fobj, args, formatting, logger, config, handles, stopCleanup, mu, pc, cur,
                 sweepList, sweepCutoff, lastSweep, proc, echo, nextId, okIds, removed,
                 closeCalls>>

NewLoggerFailures == {"none", "user", "mkdir", "readdir", "open", "sweep"}

Next ==
  \/ Tick
  \/ \E fail \in NewLoggerFailures :
        NewLogger(args.devMode, args.maxLogAgeDays, args.minLevel, fail)
  \/ \E c \in Callers, level \in Levels, len \in LineLens : LogCall(c, level, len)
  \/ \E c \in Callers : Enter(c)
  \/ \E c \in Callers : Lock(c)
  \/ \E c \in Callers, openOk \in BOOLEAN : Refresh(c, openOk)
  \/ \E c \in Callers : CloseOld(c)
  \/ \E c \in Callers : Write(c)
  \/ \E c \in Callers : Unlock(c)
  \/ \E c \in Callers : AfterWrite(c)
  \/ \E c \in Callers : CloseStop(c)
  \/ \E c \in Callers : CloseLock(c)
  \/ \E c \in Callers : CloseFile(c)
  \/ \E readOk \in BOOLEAN : SweepStart(readOk)
  \/ SweepEntry
  \/ SweepEnd
  \/ SweeperStop

Spec == Init /\ [][Next]_vars

SpecConc == InitConc /\ [][Next]_vars

SpecRace == InitRace /\ [][Next]_vars

SpecSweep == InitSweep /\ [][Next]_vars

(***************************************************************************)
(* Scheduling.  A goroutine that can take its next step takes it: a call   *)
(* in progress goes on (the mutex is handed to a waiter once it is free)   *)
(* and the sweeper goroutine goes on.  Nothing obliges a caller to make a  *)
(* call, the clock to advance or NewLogger to be called.                   *)
(***************************************************************************)
\* the next step of a call of goroutine c that is in progress
Proceeds(c) ==
  \/ Enter(c)
  \/ Lock(c)
  \/ \E openOk \in BOOLEAN : Refresh(c, openOk)
  \/ CloseOld(c)
  \/ Write(c)
  \/ Unlock(c)
  \/ AfterWrite(c)
  \/ CloseLock(c)
  \/ CloseFile(c)

\* the next step of the periodicCleanup goroutine
Sweeps ==
  \/ \E readOk \in BOOLEAN : SweepStart(readOk)
  \/ SweepEntry
  \/ SweepEnd
  \/ SweeperStop

\* the directories and configurations of the runs with scheduling
FairDirs ==
  { {LogFile(DateStr(1), 1, SizeLimit - 1, 0)},
    {LogFile(Dec31, 1, SizeLimit, 0), Entry(DataTxt, "file", 0, -1)} }

InitFair == InitWith({"g1"}, FairDirs, Configs)

SpecFair == InitFair /\ [][Next]_vars /\ WF_vars(Proceeds("g1")) /\ WF_vars(Sweeps)

SpecConcFair ==
  InitConc /\ [][Next]_vars /\ WF_vars(Proceeds("g1")) /\ WF_vars(Proceeds("g2")) /\ WF_vars(Sweeps)


(***************************************************************************)
(* formatMessage.  Strings are sequences of characters.  A field value is  *)
(* an int, a string, nil or a channel (a value encoding/json cannot        *)
(* encode).  A field map is nil or holds a function m from keys to values. *)
(***************************************************************************)
IntValue(n) == [t |-> "int", v |-> n]

StringValue(str) == [t |-> "string", v |-> str]

NilValue == [t |-> "nil", v |-> 0]

ChanValue == [t |-> "chan", v |-> 0]

RECURSIVE Join(_, _)
Join(strs, sep) ==
  IF strs = <<>> THEN <<>>
  ELSE IF Len(strs) = 1 THEN strs[1]
  ELSE strs[1] \o sep \o Join(Tail(strs), sep)

Space == <<" ">>

\* fmt's %v of a field value; a channel prints as its address
Sprint(value) ==
  CASE value.t = "int" -> Itoa(value.v)
    [] value.t = "string" -> value.v
    [] value.t = "nil" -> <<"<", "n", "i", "l", ">">>
    [] value.t = "chan" -> <<"0", "x", "c", "0", "0", "0">>

\* the level argument of formatMessage in LogDebugWith .. LogFatalWith
LevelName(level) ==
  CASE level = LogLevelDebug -> <<"D", "E", "B", "U", "G">>
    [] level = LogLevelInfo -> <<"I", "N", "F", "O">>
    [] level = LogLevelWarn -> <<"W", "A", "R", "N", "I", "N", "G">>
    [] level = LogLevelError -> <<"E", "R", "R", "O", "R">>
    [] level = LogLevelFatal -> <<"F", "A", "T", "A", "L">>

\* time.Now().Format(time.RFC3339) on the given day of January 2025, at midnight UTC
Rfc3339(day) ==
  <<"2", "0", "2", "5", "-", "0", "1", "-">> \o (IF day < 10 THEN <<"0">> ELSE <<>>) \o Itoa(day)
    \o <<"T", "0", "0", ":", "0", "0", ":", "0", "0", "Z">>

LevelKey == <<"l", "e", "v", "e", "l">>

MessageKey == <<"m", "e", "s", "s", "a", "g", "e">>

TimeKey == <<"t", "i", "m", "e">>

\* the keys of a field map; ranging over a nil map visits nothing
Keys(fields) == IF fields.nil THEN {} ELSE DOMAIN fields.m

\* a merge in which a field does not replace an entry that is there
MergeKeepsEntry(entry, fields) ==
  [k \in DOMAIN entry \cup Keys(fields) |-> IF k \in DOMAIN entry THEN entry[k] ELSE fields.m[k]]

\* for k, v := range fields { entry[k] = v }
Merge(entry, fields) ==
  [k \in DOMAIN entry \cup Keys(fields) |-> IF k \in Keys(fields) THEN fields.m[k] ELSE entry[k]]

\* encoding/json: a string in quotes, with \" for a quote and \\ for a backslash
RECURSIVE Escaped(_)
Escaped(str) ==
  IF str = <<>> THEN <<>>
  ELSE (IF str[1] \in {"\"", "\\"} THEN <<"\\", str[1]>> ELSE <<str[1]>>) \o Escaped(Tail(str))

Quoted(str) == <<"\"">> \o Escaped(str) \o <<"\"">>

\* encoding/json on one value: a channel is an unsupported type
Encodable(value) == value.t # "chan"

Encoded(value) ==
  CASE value.t = "int" -> Itoa(value.v)
    [] value.t = "string" -> Quoted(value.v)
    [] value.t = "nil" -> <<"n", "u", "l", "l">>

RECURSIVE Members(_, _)
Members(entry, keys) ==
  IF keys = <<>> THEN <<>>
  ELSE <<Quoted(keys[1]) \o <<":">> \o Encoded(entry[keys[1]])>> \o Members(entry, Tail(keys))

\* json.Marshal of a map[string]interface{}: the keys in sorted order
Marshal(entry) ==
  IF \E k \in DOMAIN entry : ~Encodable(entry[k])
  THEN [err |-> TRUE, bytes |-> <<>>]
  ELSE [err |-> FALSE,
        bytes |-> <<"{">> \o Join(Members(entry, SortNames(DOMAIN entry)), <<",">>) \o <<"}">>]

\* the text of the *json.UnsupportedTypeError for a channel
MarshalError ==
  <<"j", "s", "o", "n", ":", " ", "u", "n", "s", "u", "p", "p", "o", "r", "t", "e", "d", " ",
    "t", "y", "p", "e", ":", " ", "c", "h", "a", "n", " ", "i", "n", "t">>

FieldsError == <<"f", "i", "e", "l", "d", "s", "_", "e", "r", "r", "o", "r", "=">>

RECURSIVE fieldStrs(_, _)
fieldStrs(fields, order) ==
  IF order = <<>> THEN <<>>
  ELSE <<order[1] \o <<"=">> \o Sprint(fields.m[order[1]])>> \o fieldStrs(fields, Tail(order))

\* a check that takes an empty map for a map with fields
IsNil(fields) == fields.nil

\* fields == nil || len(fields) == 0
NoFields(fields) == fields.nil \/ Cardinality(DOMAIN fields.m) = 0

\* formatMessage; order is the order in which range visits the keys of the map
formatMessage(Format, level, message, fields, day, order) ==
  IF Format = "json"
  THEN LET entry == Merge([k \in {LevelKey, MessageKey, TimeKey} |->
                             CASE k = LevelKey -> StringValue(level)
                               [] k = MessageKey -> StringValue(message)
                               [] k = TimeKey -> StringValue(Rfc3339(day))],
                          fields)
           json == Marshal(entry)
       IN IF json.err
          THEN level \o Space \o message \o Space \o FieldsError \o MarshalError
          ELSE json.bytes
  ELSE IF NoFields(fields)
  THEN level \o Space \o message
  ELSE level \o Space \o message \o Space \o Join(fieldStrs(fields, order), Space)

\* the orders in which a range over the map can visit its keys
Orders(fields) ==
  {order \in [1..Cardinality(Keys(fields)) -> Keys(fields)] :
     \A i, j \in DOMAIN order : i # j => order[i] # order[j]}

\* the calls of formatMessage looked at
FieldKeys == {<<"k">>, LevelKey, TimeKey}

FieldValues ==
  {IntValue(123), StringValue(<<"x">>), StringValue(<<"a", " ", "\"", "\\">>), NilValue, ChanValue}

FieldMaps ==
  {[nil |-> TRUE, m |-> <<>>]} \cup
  {[nil |-> FALSE, m |-> f] :
     f \in UNION {[K -> FieldValues] : K \in {K \in SUBSET FieldKeys : Cardinality(K) <= MaxFields}}}

Messages == {<<"m">>, <<"a", " ", "b", "=", "\"">>}

Formats == {"text", "json"}

InitFormat ==
  /\ now \in 1..MaxDay
  /\ inodes = <<>>
  /\ args = [devMode |-> FALSE, maxLogAgeDays |-> 0, minLevel |-> LogLevelDebug]
  /\ InitRest({"g1"})
  /\ fmtArgs \in [Format : Formats, level : {LevelName(l) : l \in Levels}, message : Messages,
                  fields : FieldMaps]
  /\ formatted = NotFormatted

\* a Log*With method calls l.formatMessage(level, message, fields)
FormatMessage(order) ==
  /\ formatted = NotFormatted
  /\ formatted' = formatMessage(fmtArgs.Format, fmtArgs.level, fmtArgs.message, fmtArgs.fields,
                                now, order)
  /\ UNCHANGED <<now, inodes, fobj, args, fmtArgs, logger, config, handles, stopCleanup, mu, pc,
                 cur, sweeper, proc, echo, nextId, okIds, removed, closeCalls>>

NextFormat == \E order \in Orders(fmtArgs.fields) : FormatMessage(order)

SpecFormat == InitFormat /\ [][NextFormat]_vars

(***************************************************************************)
(* Vocabulary of the properties.                                           *)
(***************************************************************************)
IsPrefixOf(s, t) == Len(s) <= Len(t) /\ SubSeq(t, 1, Len(s)) = s

\* the name of the file CurrentLogFile refers to
ActiveName == inodes[fobj[CurrentLogFile].ino].name

ActiveSize == Size(inodes[fobj[CurrentLogFile].ino])

\* the date a log file is named for and its sequence number: <date>_<seq>.log
DatePrefix(name) == Split(name, "_")[1]

IsLogName(name) ==
  /\ HasSuffix(name, DotLog)
  /\ Len(Split(StripExt(name), "_")) = 2
  /\ Atoi(Split(StripExt(name), "_")[2]).ok

SeqOf(name) == Atoi(Split(StripExt(name), "_")[2]).num

RECURSIVE Occurrences(_, _)
Occurrences(lines, id) ==
  IF lines = <<>> THEN 0
  ELSE (IF lines[1].id = id THEN 1 ELSE 0) + Occurrences(Tail(lines), id)

RECURSIVE CountIn(_, _, _)
CountIn(ino, i, id) ==
  IF i > Len(ino) THEN 0 ELSE Occurrences(ino[i].lines, id) + CountIn(ino, i + 1, id)

\* how often the line of call id stands in the files, removed ones included
Count(id) == CountIn(inodes, 1, id)

RECURSIVE TotalFrom(_, _)
TotalFrom(ino, i) == IF i > Len(ino) THEN 0 ELSE Len(ino[i].lines) + TotalFrom(ino, i + 1)

\* the number of lines in the files, removed ones included
TotalLines == TotalFrom(inodes, 1)

\* the calls that have come back from FileLog.Println
Printed == {id \in okIds : \A c \in Callers : ~(cur[c].id = id /\ pc[c] \in {"closeold", "write"})}

\* a step in which caller c's refreshLogFile keeps the active file or switches to a new
\* one: no error return is left
RefreshReturnsNil(c) == pc[c] = "refresh" /\ pc'[c] \in {"closeold", "write"}

(***************************************************************************)
(* C1.  A log call whose level is below MinLevel has no effect: its one    *)
(* step leaves the files, the opened files, the logger's handles, the      *)
(* mutex and the echo as they were and the call is over.  A call whose     *)
(* level is MinLevel or above goes on to logToFile.                        *)
(***************************************************************************)
C1_FilteredCallHasNoEffect ==
  [][\A c \in Callers :
       (pc[c] = "entry" /\ pc'[c] # "entry") =>
          IF cur[c].level < MinLevel
          THEN /\ pc'[c] = "idle"
               /\ UNCHANGED <<inodes, fobj, CurrentLogFile, FileLog, mu, echo, removed>>
          ELSE pc'[c] = "lock"]_vars

\* calls were made with minLevel = Warn, all have returned, and nothing was written or
\* echoed: an accepted Warn or Error call echoes and a Fatal call ends the process, so
\* these calls were filtered
C1_Witness ==
  /\ logger = "constructed"
  /\ proc = "running"
  /\ MinLevel = LogLevelWarn
  /\ nextId >= 1
  /\ \A c \in Callers : pc[c] = "idle"
  /\ echo = {}
  /\ TotalLines = 0

C3_DateMismatchRotatesToOne ==
  [][\A c \in Callers :
       (RefreshReturnsNil(c) /\ DatePrefix(ActiveName) # DateStr(now)) =>
          ActiveName' = LogName(DateStr(now), 1)]_vars

(***************************************************************************)
(* C4.  When the active file is named for today, the rotation check keeps  *)
(* the handle if the file is below 10,000,000 bytes and otherwise moves to *)
(* <today>_<seq+1>.log; when it is named for another date the check never  *)
(* moves to seq+1.                                                         *)
(***************************************************************************)
C4_SizeRotationOnlyOnSameDate ==
  [][\A c \in Callers :
       RefreshReturnsNil(c) =>
          IF DatePrefix(ActiveName) = DateStr(now)
          THEN IF ActiveSize < SizeLimit
               THEN UNCHANGED <<CurrentLogFile, FileLog>>
               ELSE ActiveName' = LogName(DateStr(now), SeqOf(ActiveName) + 1)
          ELSE ActiveName' # LogName(DateStr(now), SeqOf(ActiveName) + 1)]_vars

(***************************************************************************)
(* C5.  Every line stands in a file named for the date on which the line   *)
(* was written.                                                            *)
(***************************************************************************)
C5_LinesInFileOfTheirDate ==
  \A i \in 1..Len(inodes) :
    \A k \in 1..Len(inodes[i].lines) :
      DatePrefix(inodes[i].name) = DateStr(inodes[i].lines[k].day)

(***************************************************************************)
(* C6.  Startup selection: without an entry named for today's date the     *)
(* logger starts on <today>_1.log, otherwise on the entry of today's date  *)
(* with the largest sequence number.                                       *)
(***************************************************************************)
TodaysLogs(names, day) == {n \in names : IsLogName(n) /\ DatePrefix(n) = DateStr(day)}

ExpectedStart(names, day) ==
  IF TodaysLogs(names, day) = {}
  THEN LogName(DateStr(day), 1)
  ELSE CHOOSE n \in TodaysLogs(names, day) :
         \A m \in TodaysLogs(names, day) : SeqOf(m) <= SeqOf(n)

C6_StartupSelection ==
  [][(logger = "none" /\ logger' = "constructed") =>
        ActiveName' = ExpectedStart(DirNames(inodes), now)]_vars

(***************************************************************************)
(* C7.  No step truncates or replaces a file: every file keeps its name    *)
(* and the bytes it held, its lines only grow at the end, and no second    *)
(* file appears under a name that is in the directory.                     *)
(***************************************************************************)
C7_NeverTruncates ==
  [][/\ Len(inodes') >= Len(inodes)
     /\ \A i \in 1..Len(inodes) :
          /\ inodes'[i].name = inodes[i].name
          /\ inodes'[i].base = inodes[i].base
          /\ IsPrefixOf(inodes[i].lines, inodes'[i].lines)
     /\ \A i \in Linked(inodes'), j \in Linked(inodes') :
          inodes'[i].name = inodes'[j].name => i = j]_vars

\* a rotation has opened a file that held bytes before, and a line was appended to it
C7_Witness ==
  /\ CurrentLogFile > 1
  /\ inodes[fobj[CurrentLogFile].ino].base > 0
  /\ inodes[fobj[CurrentLogFile].ino].lines # <<>>

(***************************************************************************)
(* C8.  A sweep with MaxLogAgeDays <= 0 returns success and removes        *)
(* nothing.  A sweep with MaxLogAgeDays = n > 0 that could list the        *)
(* directory removes an entry if and only if its name ends in ".log" and   *)
(* its modification time is before now - n; no other step removes an       *)
(* entry.                                                                  *)
(***************************************************************************)
\* the entry is to go in a sweep made on day `day` with maxAgeDays = n
Expired(name, n, day) ==
  /\ n > 0
  /\ HasSuffix(name, DotLog)
  /\ inodes[Lookup(inodes, name)].mtime < day - n

C9_SweepsRemoveOnlyRegularLogFiles ==
  \A r \in removed : r.kind = "file" /\ HasSuffix(r.name, DotLog)

(***************************************************************************)
(* C10.  A second call of Close does not panic.                            *)
(***************************************************************************)
C10_CloseTwiceDoesNotPanic == closeCalls >= 2 => proc # "panicked"

(***************************************************************************)
(* C11.  For every minLevel up to Fatal, a Fatal call goes through         *)
(* logToFile (the rotation check and, if that succeeds, the write of its   *)
(* line) and then ends the process, whether the rotation check succeeded   *)
(* or not; the process ends by log.Fatal only there, and the call never    *)
(* comes back to its caller.                                               *)
(***************************************************************************)
\* caller c is in a Fatal call that has passed the level check
InFatalCall(c) == cur[c].level = LogLevelFatal /\ pc[c] \notin {"idle", "entry"}

C11_FatalExitsAfterTheAttempt ==
  /\ [][\A c \in Callers :
          \* the call is over only with the process
          /\ (InFatalCall(c) /\ pc'[c] = "idle") => proc' = "exited"
          \* the exit comes after logToFile has returned
          /\ (pc'[c] = "after" /\ pc[c] # "after") => pc[c] = "unlock"
          /\ (pc'[c] = "unlock" /\ pc[c] # "unlock") => pc[c] \in {"refresh", "write"}
          \* a rotation check that succeeded is followed by the write of the line
          /\ (InFatalCall(c) /\ pc[c] = "refresh" /\ pc'[c] # "refresh" /\ cur[c].id \in okIds')
                => pc'[c] \in {"closeold", "write"}
          /\ (InFatalCall(c) /\ pc[c] = "closeold" /\ pc'[c] # "closeold") => pc'[c] = "write"
          /\ (InFatalCall(c) /\ pc[c] = "write" /\ pc'[c] # "write" /\ ~fobj[FileLog].closed)
                => CountIn(inodes', 1, cur[c].id) = 1]_vars
  /\ [][(proc = "running" /\ proc' = "exited") =>
          \E c \in Callers : InFatalCall(c) /\ pc[c] = "after"]_vars
  /\ (pc["g1"] = "entry" /\ cur["g1"].level = LogLevelFatal /\ MinLevel <= LogLevelFatal)
        ~> (proc = "exited")

\* the process has ended after its only call, whose rotation check failed: nothing was
\* written
C11_Witness ==
  /\ proc = "exited"
  /\ nextId = 1
  /\ okIds = {}
  /\ TotalLines = 0

(***************************************************************************)
(* C12.  A call that passes the level check is echoed by log.Println or    *)
(* log.Fatal as follows: an Info, Warn or Error call when it passes the    *)
(* check, a Fatal call when it ends, both whatever DevMode is; a Debug     *)
(* call when it ends if and only if DevMode is true.  A Debug call goes    *)
(* to logToFile and has its line written once the rotation check          *)
(* succeeded, whatever DevMode is.                                         *)
(***************************************************************************)
C12_EchoByLevelAndDevMode ==
  [][\A c \in Callers :
       /\ (pc[c] = "entry" /\ pc'[c] = "lock") =>
             /\ cur[c].level \in {LogLevelInfo, LogLevelWarn, LogLevelError}
                   => cur[c].id \in echo'
             /\ cur[c].level \in {LogLevelDebug, LogLevelFatal} => cur[c].id \notin echo'
       /\ (pc[c] \in {"unlock", "after"} /\ pc'[c] = "idle") =>
             IF cur[c].level = LogLevelDebug
             THEN cur[c].id \in echo' <=> DevMode
             ELSE cur[c].id \in echo'
       /\ (cur[c].level = LogLevelDebug /\ pc[c] = "write" /\ pc'[c] = "unlock"
             /\ ~fobj[FileLog].closed) => CountIn(inodes', 1, cur[c].id) = 1]_vars

\* without DevMode, one call was made and has returned with its line written and nothing
\* echoed: a Debug call (every other level echoes)
C12_Witness ==
  /\ ~DevMode
  /\ logger = "constructed"
  /\ nextId = 1
  /\ \A c \in Callers : pc[c] = "idle"
  /\ okIds = {1}
  /\ Count(1) = 1
  /\ echo = {}

(***************************************************************************)
(* C13.  Once Close has closed stopCleanup while the sweeper goroutine is  *)
(* running, the goroutine takes no further tick (it finishes at most the   *)
(* sweep it is in) and it eventually returns, unless the process ends      *)
(* first.                                                                  *)
(***************************************************************************)
SweeperRunning == spc \in {"select", "sweep"}

\* the goroutine receives from ticker.C and calls cleanupOldLogs
TakesTick == spc = "select" /\ tickC /\ ~tickC' /\ spc' # "done"

SweeperExitsAfterStop ==
  (stopCleanup = "closed" /\ SweeperRunning) ~> (spc = "done" \/ proc # "running")

ConstructionFailures == {"user", "mkdir", "readdir", "open"}

\* the file getUserLogFile selects in the current directory
Selected == getUserLogFile(ReadDir(inodes), DateStr(now))

C14_FailedConstructionLeavesNothing ==
  /\ [][/\ \A fail \in ConstructionFailures :
             NewLogger(args.devMode, args.maxLogAgeDays, args.minLevel, fail)
                => logger' = "failed"
        /\ (logger = "none" /\ ~CanOpen(inodes, Selected)) => logger' # "constructed"
        /\ logger' = "failed" =>
             /\ UNCHANGED <<inodes, fobj, CurrentLogFile, FileLog, stopCleanup, removed>>
             /\ spc' = "none"]_vars
  /\ [](logger = "failed" =>
          /\ fobj = <<>>
          /\ CurrentLogFile = 0
          /\ removed = {}
          /\ spc = "none"
          /\ \A c \in Callers : pc[c] = "idle")

\* NewLogger has failed with retention on (the selected name is a directory) and the
\* log file a sweep would have removed is still there
C14_Witness ==
  /\ logger = "failed"
  /\ args.maxLogAgeDays > 0
  /\ ~CanOpen(inodes, Selected)
  /\ \E name \in DirNames(inodes) : Expired(name, args.maxLogAgeDays, now)

(***************************************************************************)
(* C15.  When the sweep NewLogger makes fails (the directory cannot be     *)
(* listed), NewLogger still returns a logger: the failure is only          *)
(* reported, the file is open and the sweeper goroutine is started.        *)
(***************************************************************************)
C15_InitialSweepFailureIsNotFatal ==
  [][(NewLogger(args.devMode, args.maxLogAgeDays, args.minLevel, "sweep")
        /\ CanOpen(inodes, Selected)) =>
        /\ logger' = "constructed"
        /\ CurrentLogFile' = 1
        /\ ~fobj'[1].closed
        /\ stopCleanup' = "open"
        /\ removed' = removed
        /\ args.maxLogAgeDays > 0 => (lastSweep' = "error" /\ spc' = "select")]_vars

\* a logger constructed with a failed first sweep (no day has passed, so no periodic
\* sweep has run) has written a line
C15_Witness ==
  /\ logger = "constructed"
  /\ lastSweep = "error"
  /\ now = 1
  /\ TotalLines > 0

(***************************************************************************)
(* C16.  NewLogger constructs a logger only when the directory was made,   *)
(* the file was selected and opened and the first sweep succeeded; when    *)
(* one of them fails no logger is ever constructed.                        *)
(***************************************************************************)
C16_ActiveOnlyAfterSweepSucceeded ==
  [][/\ (logger = "none" /\ logger' = "constructed") => lastSweep' = "ok"
     /\ \A fail \in ConstructionFailures \cup {"sweep"} :
          (NewLogger(args.devMode, args.maxLogAgeDays, args.minLevel, fail)
             /\ (fail = "sweep" => args.maxLogAgeDays > 0))
            => logger' = "failed"
     /\ logger = "failed" => logger' = "failed"]_vars

(***************************************************************************)
(* C17.  When refreshLogFile returns an error in a log call (Stat of the   *)
(* active file, the sequence number, or opening the new file fails), the   *)
(* step leaves the directory, the open files, CurrentLogFile and FileLog   *)
(* as they were and the call goes to its return; the line of such a call   *)
(* is in no file then or at any later time.                                *)
(***************************************************************************)
\* the calls made so far whose rotation check failed or has not been made
NotChecked == (1..nextId) \ okIds

C17_FailedRotationDropsTheLine ==
  /\ [][\A c \in Callers :
          (pc[c] = "refresh" /\ pc'[c] # "refresh" /\ cur[c].id \notin okIds') =>
             /\ UNCHANGED <<inodes, fobj, CurrentLogFile, FileLog>>
             /\ pc'[c] = "unlock"]_vars
  /\ [](\A id \in NotChecked : Count(id) = 0)

\* of two calls that passed the level check and have returned, the first failed its
\* rotation check and the second wrote its line: the first line is not there
C17_Witness ==
  /\ MinLevel = LogLevelDebug
  /\ nextId = 2
  /\ \A c \in Callers : pc[c] = "idle"
  /\ okIds = {2}
  /\ Count(2) = 1
  /\ Count(1) = 0
  /\ proc = "running"

(***************************************************************************)
(* C18.  Every log call and every Close call that has begun comes back to  *)
(* its caller (or the process has ended in log.Fatal), and a goroutine     *)
(* that is not inside a call does not hold the mutex; the mutex is held    *)
(* only by a goroutine that is on its way to the Unlock.                   *)
(***************************************************************************)
Goroutines == {"g1", "g2"}

\* the mutex is held only between a Lock and its deferred Unlock
LockHeldInsideCallsOnly ==
  /\ \A c \in Callers : pc[c] = "idle" => mu # c
  /\ mu # NoOne => pc[mu] \in {"refresh", "closeold", "write", "unlock", "closefile"}

\* every call in progress ends: it returns or the process ends, in whatever way
CallsEnd == \A c \in Goroutines : (pc[c] # "idle") ~> (pc[c] = "idle" \/ proc # "running")

C18_EveryCallReturns ==
  /\ []LockHeldInsideCallsOnly
  /\ \A c \in Goroutines : (pc[c] # "idle") ~> (pc[c] = "idle" \/ proc = "exited")

(***************************************************************************)
(* Reading a JSON object: the members of the object a string denotes, as   *)
(* a set of <<key, value>>, if the string is one object of strings,        *)
(* numbers and nulls.                                                      *)
(***************************************************************************)
NotJSON == [ok |-> FALSE, value |-> NilValue, next |-> 0]

\* the string that starts after the quote before position i
RECURSIVE ReadString(_, _, _)
ReadString(s, i, acc) ==
  IF i > Len(s) THEN NotJSON
  ELSE IF s[i] = "\"" THEN [ok |-> TRUE, value |-> StringValue(acc), next |-> i + 1]
  ELSE IF s[i] = "\\"
       THEN IF i + 1 > Len(s) \/ s[i + 1] \notin {"\"", "\\"} THEN NotJSON
            ELSE ReadString(s, i + 2, Append(acc, s[i + 1]))
  ELSE ReadString(s, i + 1, Append(acc, s[i]))

RECURSIVE ReadNumber(_, _, _)
ReadNumber(s, i, acc) ==
  IF i <= Len(s) /\ IsDigit(s[i]) THEN ReadNumber(s, i + 1, Append(acc, s[i]))
  ELSE IF acc = <<>> THEN NotJSON
  ELSE [ok |-> TRUE, value |-> IntValue(DigitsValue(acc)), next |-> i]

ReadValue(s, i) ==
  IF i > Len(s) THEN NotJSON
  ELSE IF s[i] = "\"" THEN ReadString(s, i + 1, <<>>)
  ELSE IF IsDigit(s[i]) THEN ReadNumber(s, i, <<>>)
  ELSE IF i + 3 <= Len(s) /\ SubSeq(s, i, i + 3) = <<"n", "u", "l", "l">>
       THEN [ok |-> TRUE, value |-> NilValue, next |-> i + 4]
  ELSE NotJSON

\* the members from position i on, up to the closing brace that ends the string
RECURSIVE ReadMembers(_, _, _)
ReadMembers(s, i, acc) ==
  IF i > Len(s) \/ s[i] # "\"" THEN [ok |-> FALSE, members |-> {}]
  ELSE LET k == ReadString(s, i + 1, <<>>)
       IN IF ~k.ok \/ k.next > Len(s) \/ s[k.next] # ":" THEN [ok |-> FALSE, members |-> {}]
          ELSE LET v == ReadValue(s, k.next + 1)
                   all == acc \cup {<<k.value.v, v.value>>}
               IN IF ~v.ok \/ v.next > Len(s) THEN [ok |-> FALSE, members |-> {}]
                  ELSE IF s[v.next] = "}" /\ v.next = Len(s) THEN [ok |-> TRUE, members |-> all]
                  ELSE IF s[v.next] = "," THEN ReadMembers(s, v.next + 1, all)
                  ELSE [ok |-> FALSE, members |-> {}]

ReadObject(s) ==
  IF Len(s) < 2 \/ s[1] # "{" THEN [ok |-> FALSE, members |-> {}]
  ELSE IF s = <<"{", "}">> THEN [ok |-> TRUE, members |-> {}]
  ELSE ReadMembers(s, 2, {})

ReservedKeys == {LevelKey, MessageKey, TimeKey}

\* formatted is one JSON object with the reserved keys and the field keys, each field with
\* its value and each reserved key no field has with the level, the message and the time
IsTheJSONLine ==
  LET object == ReadObject(formatted)
      fields == fmtArgs.fields
  IN /\ object.ok
     /\ {member[1] : member \in object.members} = ReservedKeys \cup Keys(fields)
     /\ Cardinality(object.members) = Cardinality(ReservedKeys \cup Keys(fields))
     /\ \A k \in Keys(fields) : <<k, fields.m[k]>> \in object.members
     /\ LevelKey \notin Keys(fields) => <<LevelKey, StringValue(fmtArgs.level)>> \in object.members
     /\ MessageKey \notin Keys(fields)
           => <<MessageKey, StringValue(fmtArgs.message)>> \in object.members
     /\ TimeKey \notin Keys(fields) => <<TimeKey, StringValue(Rfc3339(now))>> \in object.members

JSONFormatted == fmtArgs.Format = "json" /\ formatted # NotFormatted

\* json.Marshal can encode every field value
Serializable == \A k \in Keys(fmtArgs.fields) : Encodable(fmtArgs.fields.m[k])

(***************************************************************************)
(* C19, as stated.  In JSON mode the formatted line is one JSON object     *)
(* whose keys are level, message, time and the field keys, with every      *)
(* field's value, a field named level, message or time replacing the       *)
(* reserved value.                                                         *)
(***************************************************************************)
C19_JSONLineAlways == JSONFormatted => IsTheJSONLine

(***************************************************************************)
(* C19, amended.  In JSON mode, when every field value can be encoded, the *)
(* formatted line is that JSON object; when one cannot, the line is        *)
(* "<LEVEL> <message> fields_error=<error>" and no JSON object.            *)
(***************************************************************************)
C19_JSONLineWhenSerializable ==
  JSONFormatted =>
    IF Serializable
    THEN IsTheJSONLine
    ELSE /\ ~ReadObject(formatted).ok
         /\ HasPrefix(formatted, fmtArgs.level \o Space \o fmtArgs.message \o Space \o FieldsError)

\* a line in JSON mode whose field named level has replaced the level
C19_Witness ==
  /\ JSONFormatted
  /\ Serializable
  /\ LevelKey \in Keys(fmtArgs.fields)
  /\ <<"k">> \in Keys(fmtArgs.fields)
  /\ fmtArgs.fields.m[LevelKey] # StringValue(fmtArgs.level)
  /\ <<LevelKey, fmtArgs.fields.m[LevelKey]>> \in ReadObject(formatted).members

(***************************************************************************)
(* C20.  In text mode the formatted line is "<LEVEL> <message>" when the   *)
(* field map is nil or empty; otherwise it is that, a space, and the       *)
(* tokens key=value of the fields, one per field, in some order, with one  *)
(* space between them.                                                     *)
(***************************************************************************)
\* the tokens key=value of the fields in the given order, each after a space
RECURSIVE Tokens(_, _)
Tokens(fields, order) ==
  IF order = <<>> THEN <<>>
  ELSE Space \o order[1] \o <<"=">> \o Sprint(fields.m[order[1]]) \o Tokens(fields, Tail(order))

TextFormatted == fmtArgs.Format = "text" /\ formatted # NotFormatted

C20_TextLine ==
  TextFormatted =>
    LET prefix == fmtArgs.level \o Space \o fmtArgs.message
        fields == fmtArgs.fields
    IN IF Keys(fields) = {}
       THEN formatted = prefix
       ELSE \E order \in Orders(fields) : formatted = prefix \o Tokens(fields, order)

\* a line in text mode for a map that is empty and not nil: no space follows the message
C20_Witness ==
  /\ TextFormatted
  /\ ~fmtArgs.fields.nil
  /\ Keys(fmtArgs.fields) = {}
  /\ formatted = fmtArgs.level \o Space \o fmtArgs.message

(***************************************************************************)
(* C21.  The rotation check, the rotation and the write of a log call are  *)
(* one critical section: at most one call is between its Lock and its      *)
(* Unlock, and it holds the mutex.  Only the call at its rotation check    *)
(* changes the active file; when the active file is of today's date it     *)
(* does so only if the file is at or above the ceiling, and it moves from  *)
(* sequence n to n + 1, so a caller that comes after a rotation finds the  *)
(* new file and neither rotates again nor writes to the old file.  Every   *)
(* line is written to the active file, and no sequence number of a date is *)
(* left out.                                                               *)
(***************************************************************************)
\* the callers between the Lock and the Unlock of logToFile
InCriticalSection == {c \in Callers : pc[c] \in {"refresh", "closeold", "write", "unlock"}}

\* every file <date>_<n>.log with n > 1 that is or was in the directory comes after a
\* file <date>_<n-1>.log
NoSequenceNumberSkipped ==
  \A i \in 1..Len(inodes) :
    (IsLogName(inodes[i].name) /\ SeqOf(inodes[i].name) > 1) =>
       \E j \in 1..Len(inodes) :
         inodes[j].name = LogName(DatePrefix(inodes[i].name), SeqOf(inodes[i].name) - 1)

C21_OneCriticalSection ==
  /\ [](/\ Cardinality(InCriticalSection) <= 1
        /\ \A c \in InCriticalSection : mu = c
        /\ logger = "constructed" => FileLog = CurrentLogFile
        /\ NoSequenceNumberSkipped)
  /\ [][/\ (logger = "constructed" /\ CurrentLogFile' # CurrentLogFile) =>
             /\ \E c \in Callers : mu = c /\ RefreshReturnsNil(c)
             /\ ~fobj'[CurrentLogFile'].closed
             /\ DatePrefix(ActiveName) = DateStr(now) =>
                  /\ ActiveSize >= SizeLimit
                  /\ ActiveName' = LogName(DateStr(now), SeqOf(ActiveName) + 1)
        /\ \A c \in Callers :
             (pc[c] = "write" /\ pc'[c] = "unlock" /\ ~fobj[CurrentLogFile].closed) =>
                /\ Occurrences(inodes'[fobj[CurrentLogFile].ino].lines, cur[c].id) = 1
                /\ CountIn(inodes', 1, cur[c].id) = 1]_vars

\* the logger started on a file at the ceiling; one caller has rotated to sequence 2 and
\* written there, still holding the mutex, while the other waits for the mutex
C21_Witness ==
  \E c1 \in Callers, c2 \in Callers :
    /\ c1 # c2
    /\ pc[c1] = "unlock"
    /\ pc[c2] = "lock"
    /\ Size(inodes[fobj[1].ino]) >= SizeLimit
    /\ CurrentLogFile = 2
    /\ ActiveName = LogName(DateStr(now), 2)
    /\ Occurrences(inodes[fobj[2].ino].lines, cur[c1].id) = 1

(***************************************************************************)
(* C22.  Whatever the name of the active file, a rotation check that fails *)
(* (Stat of the active file, the sequence number in its name, opening the  *)
(* new file) rotates nothing and returns an error to logToFile: the        *)
(* process goes on running and the call goes to its return.                *)
(***************************************************************************)
C22_RotationFailureIsAnError ==
  [][\A c \in Callers :
       (pc[c] = "refresh" /\ pc'[c] # "refresh" /\ ~RefreshReturnsNil(c)) =>
          /\ proc' = "running"
          /\ CurrentLogFile' = CurrentLogFile
          /\ FileLog' = FileLog
          /\ fobj' = fobj]_vars

(***************************************************************************)
(* C23.  In a rotation the logger's CurrentLogFile and FileLog are         *)
(* switched to the newly opened file before the old file is closed: the    *)
(* step that switches closes nothing, and the step that closes the old     *)
(* file finds the logger on another, open file.  So as long as Close has   *)
(* not been called on the logger, CurrentLogFile and FileLog refer to a    *)
(* file that is not closed.                                                *)
(***************************************************************************)
\* the logger is constructed and Close has not been called on it
Active == logger = "constructed" /\ closeCalls = 0

OpenFiles == {i \in 1..Len(fobj) : ~fobj[i].closed}

\* a rotation is between its switch to the new file and the Close of the old one
Rotating == \E c \in Callers : pc[c] = "closeold"

ClosesActiveFile ==
  /\ CurrentLogFile # 0
  /\ ~fobj[CurrentLogFile].closed
  /\ fobj'[CurrentLogFile].closed

C25_CloseStopsThenClosesUnderLock ==
  /\ [](\A c \in Callers :
          /\ pc[c] \in {"closelock", "closefile"} => stopCleanup = "closed"
          /\ pc[c] = "closefile" => (mu = c /\ InCriticalSection = {})
          /\ pc[c] \in {"closeold", "write"} => ~fobj[FileLog].closed)
  /\ [][ClosesActiveFile =>
          \E c \in Callers :
            /\ pc[c] = "closefile"
            /\ pc'[c] = "idle"
            /\ mu = c
            /\ stopCleanup = "closed"]_vars

\* a log call is between its rotation check and its write while Close, called by the
\* other goroutine, has closed stopCleanup and waits for the mutex: the file is open
C25_Witness ==
  \E c1 \in Callers, c2 \in Callers :
    /\ pc[c1] = "write"
    /\ pc[c2] = "closelock"
    /\ stopCleanup = "closed"
    /\ mu = c1
    /\ ~fobj[FileLog].closed

(***************************************************************************)
(* C26.  The periodicCleanup goroutine exists if and only if the logger    *)
(* was constructed with maxLogAgeDays > 0.  It is started once, by the     *)
(* step that constructs the logger, after the sweep NewLogger makes has    *)
(* returned; it ends only after Close.  It starts a sweep only by taking a *)
(* tick, a tick comes only with the passing of a day, and once Close has   *)
(* returned it starts no sweep.                                            *)
(***************************************************************************)
\* the goroutine exists exactly for the loggers with retention, from construction on
SweeperIffRetention ==
  /\ logger # "constructed" => spc = "none"
  /\ logger = "constructed" => (spc # "none" <=> MaxLogAgeDays > 0)
  /\ (logger = "constructed" /\ stopCleanup = "open") => (SweeperRunning <=> MaxLogAgeDays > 0)
  /\ spc = "done" => stopCleanup = "closed"

\* the goroutine is started by NewLogger after its own sweep and never again
StartedOnceAfterInitialSweep ==
  /\ (spc = "none" /\ spc' # "none") =>
        /\ logger = "none"
        /\ logger' = "constructed"
        /\ spc' = "select"
        /\ lastSweep' \in {"ok", "error"}
        /\ sweepList' = <<>>
        /\ ~tickC'
  /\ spc # "none" => spc' # "none"
  /\ spc = "done" => spc' = "done"

\* a periodic sweep starts, or returns at once, only by taking a tick; only the clock
\* makes a tick
SweepsOnTicksOnly ==
  /\ (logger = "constructed" /\ ((spc' = "sweep" /\ spc # "sweep") \/ lastSweep' # lastSweep)) =>
        (spc \in {"select", "sweep"} /\ (spc = "select" => (tickC /\ ~tickC')))
  /\ (tickC' /\ ~tickC) => now' > now
  /\ (logger = "constructed" /\ ~(DirNames(inodes) \subseteq DirNames(inodes'))) => spc = "sweep"

\* Close has returned
CloseReturned ==
  /\ stopCleanup = "closed"
  /\ \A c \in Callers : pc[c] \notin {"closestop", "closelock", "closefile"}

SweeperAsClaimedBeforeClose ==
  /\ []SweeperIffRetention
  /\ [][StartedOnceAfterInitialSweep /\ SweepsOnTicksOnly]_vars

C26_OneSweeperOnTicksUntilClose ==
  /\ []SweeperIffRetention
  /\ [][/\ StartedOnceAfterInitialSweep
        /\ SweepsOnTicksOnly
        /\ CloseReturned => ~(spc = "select" /\ spc' = "sweep")]_vars

(***************************************************************************)
(* C27.  In a sweep, of NewLogger or of the goroutine, a failure to list   *)
(* the directory makes the sweep return an error with nothing removed.  A  *)
(* failure to remove an entry does not end the sweep: the loop goes on     *)
(* with the next entry, every other old log entry is removed, and the      *)
(* sweep returns nil.                                                      *)
(***************************************************************************)
\* os.Remove can remove the entry
Removable(name) == inodes[Lookup(inodes, name)].kind # "fulldir"

C27_ListingFailureAbortsRemovalFailureDoesNot ==
  [][\* the sweep of NewLogger
     /\ (logger = "none" /\ logger' = "constructed") =>
          /\ lastSweep' = "error" <=>
                (args.maxLogAgeDays > 0
                   /\ NewLogger(args.devMode, args.maxLogAgeDays, args.minLevel, "sweep"))
          /\ IF lastSweep' = "error"
             THEN DirNames(inodes) \subseteq DirNames(inodes') /\ removed' = removed
             ELSE \A name \in DirNames(inodes) :
                    name \notin DirNames(inodes') <=>
                      (Expired(name, args.maxLogAgeDays, now) /\ Removable(name))
     \* a sweep of the goroutine: ReadDir fails
     /\ (MaxLogAgeDays > 0 /\ SweepStart(FALSE)) =>
          /\ lastSweep' = "error"
          /\ spc' = "select"
          /\ UNCHANGED <<inodes, removed>>
     \* one entry of the loop
     /\ (spc = "sweep" /\ sweepList # <<>> /\ sweepList' # sweepList) =>
          /\ spc' = "sweep"
          /\ sweepList' = Tail(sweepList)
          /\ \A name \in DirNames(inodes) :
               name \notin DirNames(inodes') <=>
                 /\ name = sweepList[1]
                 /\ Expired(name, MaxLogAgeDays, sweepCutoff + MaxLogAgeDays)
                 /\ Removable(name)
     \* the end of the loop
     /\ (spc = "sweep" /\ spc' # "sweep") => (sweepList = <<>> /\ lastSweep' = "ok")]_vars

\* on day 2 a sweep of the goroutine has returned nil: arch.log, old and not empty, is
\* still there, and x.log, which comes after it in the listing, was removed
C27_Witness ==
  /\ now = 2
  /\ spc = "select"
  /\ lastSweep = "ok"
  /\ ArchLog \in DirNames(inodes)
  /\ inodes[Lookup(inodes, ArchLog)].kind = "fulldir"
  /\ inodes[Lookup(inodes, ArchLog)].mtime = 0
  /\ XLog \notin DirNames(inodes)
  /\ LogName(Dec31, 1) \notin DirNames(inodes)

(***************************************************************************)
(* C28.  No sweep, of NewLogger or of the goroutine, removes the file      *)
(* CurrentLogFile refers to, as long as Close has not been called.         *)
(***************************************************************************)
\* the step unlinks the file that CurrentLogFile refers to after it
RemovesActiveFile ==
  /\ logger' = "constructed"
  /\ LET active == fobj'[CurrentLogFile'].ino
     IN /\ ~inodes'[active].linked
        /\ active <= Len(inodes) => inodes[active].linked

C28_NoSweepRemovesTheActiveFile == [][~(Active' /\ RemovesActiveFile)]_vars

(***************************************************************************)
(* C29.  Whenever a log call switches the active file from one log file to *)
(* another: if the old file is named for another date than today the new   *)
(* one is <today>_1.log, and if it is named for today the new one is       *)
(* <today>_<n+1>.log, n being the old sequence number; and the pair of the *)
(* date and the sequence number of the active file does not decrease.      *)
(***************************************************************************)
\* the day a date string stands for, counted from the last day of the year before
DayOfDate(date) == IF date = Dec31 THEN 0 ELSE CHOOSE day \in 1..31 : DateStr(day) = date

\* (date, sequence) of name a is not above that of name b
PairNotAbove(a, b) ==
  \/ DayOfDate(DatePrefix(a)) < DayOfDate(DatePrefix(b))
  \/ DayOfDate(DatePrefix(a)) = DayOfDate(DatePrefix(b)) /\ SeqOf(a) <= SeqOf(b)

C29_SequenceNumbersOnlyIncrease ==
  [][(logger = "constructed" /\ CurrentLogFile' # CurrentLogFile /\ IsLogName(ActiveName)) =>
        /\ ActiveName' =
              IF DatePrefix(ActiveName) # DateStr(now)
              THEN LogName(DateStr(now), 1)
              ELSE LogName(DateStr(now), SeqOf(ActiveName) + 1)
        /\ PairNotAbove(ActiveName, ActiveName')]_vars

(***************************************************************************)
(* C30.  At startup an entry that starts with today's date and whose part  *)
(* after the last "_" is no integer is passed over: it does not become the *)
(* active file, and when no entry of today's date has an integer there the *)
(* logger starts on <today>_1.log.                                         *)
(***************************************************************************)
\* the name, without its last four characters, ends in "_" and an integer
HasSequenceNumber(name) ==
  LET parts == Split(StripExt(name), "_")
  IN Len(parts) >= 2 /\ Atoi(parts[Len(parts)]).ok

\* the entries that start with the date of the given day
StartingWithDate(names, day) == {n \in names : HasPrefix(n, DateStr(day))}

C30_UnparseableEntriesAreSkipped ==
  [][(logger = "none" /\ logger' = "constructed") =>
        LET todays == StartingWithDate(DirNames(inodes), now)
        IN /\ \A n \in todays : ~HasSequenceNumber(n) => ActiveName' # n
           /\ (\A n \in todays : ~HasSequenceNumber(n)) => ActiveName' = LogName(DateStr(now), 1)]_vars

(***************************************************************************)
(* C31.  No step of a log call changes the lifecycle of the logger: it     *)
(* stays constructed, stopCleanup, the sweeper goroutine and the           *)
(* configuration are as they were, and an Active logger stays Active.  A   *)
(* rotation check that fails leaves the handle, the opened files and the   *)
(* directory as they were, and whether a rotation check fails depends on   *)
(* the handle, the directory, the clock and the outcome of os.OpenFile at  *)
(* that moment only: nothing is kept of an earlier failure.                *)
(***************************************************************************)
\* goroutine c takes a step of a log call
LogCallStep(c) ==
  /\ pc[c] \in {"entry", "lock", "refresh", "closeold", "write", "unlock", "after"}
  /\ pc'[c] # pc[c]

C31_LogCallsKeepTheLifecycle ==
  [][\A c \in Callers :
       LogCallStep(c) =>
          /\ logger' = logger
          /\ UNCHANGED <<stopCleanup, closeCalls, spc, DevMode, MaxLogAgeDays, MinLevel>>
          /\ Active => Active'
          /\ pc[c] = "refresh" =>
                LET ifOpens == refreshLogFile(inodes, fobj, CurrentLogFile, now, TRUE)
                    ifNot == refreshLogFile(inodes, fobj, CurrentLogFile, now, FALSE)
                IN /\ ~ifNot.err => RefreshReturnsNil(c)
                   /\ RefreshReturnsNil(c) => ~ifOpens.err
                   /\ ~RefreshReturnsNil(c) =>
                        /\ UNCHANGED <<inodes, CurrentLogFile, FileLog, oldFile>>
                        /\ fobj' = fobj]_vars

\* the rotation of the first call failed at os.OpenFile; the second call rotated from the
\* same handle and wrote its line to the new file
C31_Witness ==
  /\ Active
  /\ proc = "running"
  /\ nextId = 2
  /\ okIds = {2}
  /\ \A c \in Callers : pc[c] = "idle"
  /\ Len(fobj) = 2
  /\ CurrentLogFile = 2
  /\ Occurrences(inodes[fobj[2].ino].lines, 2) = 1
  /\ Count(1) = 0

(***************************************************************************)
(* C32.  With MaxLogAgeDays >= 1 and a directory that holds no file named  *)
(* for a later date than today, no line is appended to a file that a sweep *)
(* has removed, and a rotation check that finds the file of the handle     *)
(* removed switches to another file, which is in the directory.            *)
(***************************************************************************)
\* the file the handle refers to is no longer in the directory
ActiveFileRemoved == CurrentLogFile # 0 /\ ~inodes[fobj[CurrentLogFile].ino].linked

\* a rotation check that succeeds on a removed file leaves it for a file in the directory
RotatesAfterRemoval ==
  [][\A c \in Callers :
       (MaxLogAgeDays >= 1 /\ ActiveFileRemoved /\ RefreshReturnsNil(c)) =>
          /\ CurrentLogFile' # CurrentLogFile
          /\ inodes'[fobj'[CurrentLogFile'].ino].linked]_vars

C32_NoLineToARemovedFile ==
  /\ RotatesAfterRemoval
  /\ [][\A c \in Callers :
          (MaxLogAgeDays >= 1 /\ pc[c] = "write" /\ pc'[c] = "unlock" /\ ~fobj[FileLog].closed) =>
             inodes[fobj[FileLog].ino].linked]_vars

(***************************************************************************)
(* C33.  Once Close has returned, no step of a log call appends a line to  *)
(* a file, creates a file or leaves a file open, whatever the date.        *)
(***************************************************************************)
C33_ClosedLoggerStaysClosed ==
  [][\A c \in Callers :
       (CloseReturned /\ LogCallStep(c)) =>
          /\ Len(inodes') = Len(inodes)
          /\ \A i \in 1..Len(inodes) : inodes'[i].lines = inodes[i].lines
          /\ OpenFiles' = {}]_vars

(***************************************************************************)
(* C34.  Once Close has returned, periodicCleanup starts no sweep and no   *)
(* file leaves the directory.                                              *)
(***************************************************************************)
\* periodicCleanup takes the tick and enters cleanupOldLogs
StartsSweep == spc = "select" /\ spc' = "sweep"

\* some file of the directory is removed by the step
RemovesAFile == \E i \in 1..Len(inodes) : inodes[i].linked /\ ~inodes'[i].linked

NoSweepStartsAfterClose == [][CloseReturned => ~StartsSweep]_vars

NoRemovalAfterClose == [][CloseReturned => ~RemovesAFile]_vars

C34_SweeperIdleAfterClose == [][CloseReturned => (~StartsSweep /\ ~RemovesAFile)]_vars

(***************************************************************************)
(* C35.  With one writer and no file named for a date still to come, the   *)
(* file NewLogger opens and the file a rotation switches to is in the      *)
(* directory and no log file of today's date there has a higher sequence   *)
(* number; and when a line is appended, no log file of the date of the     *)
(* file written to has a higher sequence number than that file.            *)
(***************************************************************************)
\* name is <date>_<n>.log for a number n
IsLogFileOfDate(name, date) ==
  /\ HasPrefix(name, date \o <<"_">>)
  /\ HasSuffix(name, DotLog)
  /\ Atoi(SubSeq(name, Len(date) + 2, Len(name) - 4)).ok

\* the number n of <date>_<n>.log
SeqAfterDate(name, date) == Atoi(SubSeq(name, Len(date) + 2, Len(name) - 4)).num

\* the day of the month a name of this month is for, 0 when it has none
DayOfName(name) ==
  LET date == DatePrefix(name)
  IN Atoi(SubSeq(date, Len(YearMonth) + 1, Len(date))).num

\* no entry of the directory is named for a day of this month still to come
NoFutureFile == \A n \in DirNames(inodes) : HasPrefix(n, YearMonth) => DayOfName(n) <= now

\* no log file of the date has a sequence number above that of name
HighestOfDate(names, name, date) ==
  \A n \in names :
     IsLogFileOfDate(n, date) =>
        (IsLogFileOfDate(name, date) /\ SeqAfterDate(n, date) <= SeqAfterDate(name, date))

\* the file of handle c is in the directory and the highest of the date of the day
ActiveIsHighest(ino, fo, c, day) ==
  LET name == ino[fo[c].ino].name
  IN /\ name \in DirNames(ino)
     /\ HighestOfDate(DirNames(ino), name, DateStr(day))

ActiveIsHighestToday == ActiveIsHighest(inodes, fobj, CurrentLogFile, now)

WrittenName == inodes[fobj[FileLog].ino].name

C35_ActiveFileIsTheHighestOfItsDate ==
  [][/\ (logger = "none" /\ logger' = "constructed") =>
          (ActiveIsHighest(inodes', fobj', CurrentLogFile', now') \/ ~NoFutureFile)
     /\ \A c \in Callers :
          /\ (RefreshReturnsNil(c) /\ CurrentLogFile' # CurrentLogFile) =>
                (ActiveIsHighest(inodes', fobj', CurrentLogFile', now') \/ ~NoFutureFile)
          /\ (pc[c] = "write" /\ pc'[c] = "unlock") =>
                (HighestOfDate(DirNames(inodes), WrittenName, DatePrefix(WrittenName)) \/ ~NoFutureFile)]_vars

\* NewLogger took 2025-1-1_10.log and not 2025-1-1_2.log, the first call rotated to
\* 2025-1-1_11.log and wrote its line there
C35_Witness ==
  /\ logger = "constructed"
  /\ NoFutureFile
  /\ {LogName(DateStr(1), 2), LogName(DateStr(1), 10)} \subseteq DirNames(inodes)
  /\ ActiveName = LogName(DateStr(1), 11)
  /\ now = 1
  /\ ActiveIsHighestToday
  /\ Occurrences(inodes[fobj[CurrentLogFile].ino].lines, 1) = 1

(***************************************************************************)
(* C36.  A line is appended only to a file whose size is below the ceiling *)
(* at the rotation check of the call that writes it.  The caller holds the *)
(* mutex from the check to the write, so the size at the write is the size *)
(* at the check.                                                           *)
(***************************************************************************)
\* goroutine c appends its line to the file of FileLog
Appends(c) == pc[c] = "write" /\ pc'[c] = "unlock" /\ inodes' # inodes

C36_LinesGoToFilesBelowTheCeiling ==
  [][\A c \in Callers : Appends(c) => BelowCeiling(Size(inodes[fobj[FileLog].ino]))]_vars

(***************************************************************************)
(* C37.  Whenever the mutex is free, FileLog writes to the file that       *)
(* CurrentLogFile refers to.  NewLogger sets both to the file it opened, a *)
(* rotation check that switches replaces both by the same new file, and a  *)
(* rotation check that fails replaces neither.                             *)
(***************************************************************************)
WriterFollowsHandle == (logger = "constructed" /\ mu = NoOne) => (CurrentLogFile # 0 /\ FileLog = CurrentLogFile)

C37_WriterAndHandleAgree ==
  /\ []WriterFollowsHandle
  /\ [][/\ (logger = "none" /\ logger' = "constructed") =>
             (CurrentLogFile' = Len(fobj') /\ FileLog' = CurrentLogFile')
        /\ \A c \in Callers :
             (pc[c] = "refresh" /\ pc'[c] # "refresh") =>
                /\ CurrentLogFile' # CurrentLogFile =>
                      (RefreshReturnsNil(c) /\ FileLog' # FileLog /\ FileLog' = CurrentLogFile')
                /\ FileLog' # FileLog => CurrentLogFile' # CurrentLogFile
                /\ ~RefreshReturnsNil(c) => UNCHANGED <<CurrentLogFile, FileLog>>]_vars

\* the first call rotated and wrote through the new writer, the rotation of the second call
\* failed at os.OpenFile on the next day, and the mutex is free again
C37_Witness ==
  /\ logger = "constructed"
  /\ mu = NoOne
  /\ \A c \in Callers : pc[c] = "idle"
  /\ now = 2
  /\ nextId = 2
  /\ okIds = {1}
  /\ Len(fobj) = 2
  /\ CurrentLogFile = 2
  /\ FileLog = 2
  /\ Occurrences(inodes[fobj[2].ino].lines, 1) = 1
  /\ Count(2) = 0

====
